---- MODULE Spec2Model ----
(***************************************************************************)
(* Close approaches of near-Earth objects: the filter set built by         *)
(* create_filters, the bounded iteration of limit (src/src/filters.py)     *)
(* and the NEO loader load_neos (src/src/extract.py).                      *)
(***************************************************************************)
EXTENDS Integers, Sequences, FiniteSets, TLC

(* ------------------------------ bounds -------------------------------- *)
\* numeric attribute values and numeric bounds range over 0..MaxVal
MaxVal == 1
\* a close approach happens at one of the instants 0..MaxTime
MaxTime == 3
\* instants in one calendar day (the granularity of the time of day)
TicksPerDay == 2
\* at most MaxSupplied criteria are supplied to one create_filters call
MaxSupplied == 2
\* the upstream of limit holds at most MaxLen items, drawn from 1..MaxElem
MaxLen == 3
MaxElem == 2
\* limit is called with n = None or n in 0..MaxN
MaxN == 3
\* the caller asks for at most MaxExtra items more than the upstream holds
MaxExtra == 2
\* the CSV file holds at most MaxRows rows
MaxRows == 2

(* --------------------------- Python values ---------------------------- *)
\* A Python value is a record [kind, val]; kind is the Python type.
None == [kind |-> "None", val |-> 0]

NaN == [kind |-> "nan", val |-> 0]

Float(v) == [kind |-> "float", val |-> v]

Date(d) == [kind |-> "date", val |-> d]

PyInt(v) == [kind |-> "int", val |-> v]

Str(s) == [kind |-> "str", val |-> s]

Bool(b) == [kind |-> "bool", val |-> b]

\* `v is None`
is_None(v) == v.kind = "None"

\* a reference to a CloseApproach object
Ref(x) == [kind |-> "CloseApproach", val |-> x]

\* Python truth value testing, as `if v:` applies it; a CloseApproach is a
\* plain object, which is true
truthy(v) ==
    CASE v.kind = "None" -> FALSE
      [] v.kind = "float" -> v.val # 0
      [] v.kind = "int" -> v.val # 0
      [] v.kind = "str" -> v.val # ""
      [] v.kind = "nan" -> TRUE
      [] v.kind = "bool" -> v.val
      [] v.kind = "date" -> TRUE
      [] v.kind = "CloseApproach" -> TRUE

\* `not (a < b)` in place of `a >= b`
ge_not_lt(a, b) == ~(a.kind = b.kind /\ a.kind \in {"float", "date"} /\ a.val < b.val)

\* a >= b on floats and on dates; every comparison with NaN is False
ge(a, b) == a.kind = b.kind /\ a.kind \in {"float", "date"} /\ a.val >= b.val

\* a <= b
le(a, b) == a.kind = b.kind /\ a.kind \in {"float", "date"} /\ a.val <= b.val

\* a == b; NaN equals nothing
eq(a, b) == a.kind = b.kind /\ a.kind # "nan" /\ a.val = b.val

(* ----------------------- entities (inputs) ---------------------------- *)
Floats == {Float(v) : v \in 0..MaxVal}

\* the calendar dates of the instants 0..MaxTime
Dates == {Date(d) : d \in 0..(MaxTime \div TicksPerDay)}

Bools == {Bool(TRUE), Bool(FALSE)}

\* a NEO as its CloseApproach sees it: diameter is NaN when unknown
Neos == [diameter : Floats \cup {NaN}, hazardous : Bools]

\* a CloseApproach: time is a datetime (an instant), neo its linked NEO
Approaches ==
    [time : 0..MaxTime, distance : Floats, velocity : Floats, neo : Neos]

\* x.time.date(): the calendar date of a datetime, its time of day dropped
date_of(t) == Date(t \div TicksPerDay)

(* --------------------------- create_filters --------------------------- *)
Keys ==
    {"date", "start_date", "end_date", "distance_min", "distance_max",
     "velocity_min", "velocity_max", "diameter_min", "diameter_max", "hazardous"}

\* the values a caller supplies for criterion k (None apart)
Supplied(k) ==
    CASE k \in {"date", "start_date", "end_date"} -> Dates
      [] k = "hazardous" -> Bools
      [] OTHER -> Floats

AllSupplied == Dates \cup Bools \cup Floats

\* the keyword arguments of one call: every criterion outside S is None
ArgsOver(S) ==
    {[k \in Keys |-> IF k \in S THEN g[k] ELSE None] :
        g \in {h \in [S -> AllSupplied] : \A k \in S : h[k] \in Supplied(k)}}

\* a filter is the closure of one lambda: the attribute it reads, the
\* comparison it makes and the bound it captured
Filter(attr, op, bound) == [attr |-> attr, op |-> op, bound |-> bound]

\* filters.append(f) under `if cond:`
Opt(cond, f) == IF cond THEN <<f>> ELSE <<>>

\* `if hazardous:` in place of `if hazardous is not None:`
hazardous_filter_truthy(a) ==
    Opt(truthy(a.hazardous), Filter("neo.hazardous", "==", a.hazardous))

hazardous_filter(a) ==
    Opt(~is_None(a.hazardous), Filter("neo.hazardous", "==", a.hazardous))

create_filters(a) ==
       Opt(truthy(a.distance_min), Filter("distance", ">=", a.distance_min))
    \o Opt(truthy(a.distance_max), Filter("distance", "<=", a.distance_max))
    \o Opt(truthy(a.velocity_min), Filter("velocity", ">=", a.velocity_min))
    \o Opt(truthy(a.velocity_max), Filter("velocity", "<=", a.velocity_max))
    \o hazardous_filter(a)
    \o Opt(truthy(a.diameter_min), Filter("neo.diameter", ">=", a.diameter_min))
    \o Opt(truthy(a.diameter_max), Filter("neo.diameter", "<=", a.diameter_max))
    \o Opt(truthy(a.date), Filter("time.date()", "==", a.date))
    \o Opt(truthy(a.start_date), Filter("time.date()", ">=", a.start_date))
    \o Opt(truthy(a.end_date), Filter("time.date()", "<=", a.end_date))

\* the attribute of x a filter reads
attribute(f, x) ==
    CASE f.attr = "distance" -> x.distance
      [] f.attr = "velocity" -> x.velocity
      [] f.attr = "neo.hazardous" -> x.neo.hazardous
      [] f.attr = "neo.diameter" -> x.neo.diameter
      [] f.attr = "time.date()" -> date_of(x.time)

compare(op, v, bound) ==
    CASE op = ">=" -> ge(v, bound)
      [] op = "<=" -> le(v, bound)
      [] op = "==" -> eq(v, bound)

\* the value the lambda returns: x itself, or False
filter_return(f, x) ==
    IF compare(f.op, attribute(f, x), f.bound) THEN Ref(x) ELSE Bool(FALSE)

\* a filter that raises the approach's distance to its bound as it runs
filter_effect_clamp(f, x) ==
    IF f.attr = "distance" /\ f.op = ">=" /\ ~ge(x.distance, f.bound)
    THEN [x EXCEPT !.distance = f.bound] ELSE x

\* the approach object after the lambda ran: no lambda assigns to it
filter_effect(f, x) == x

RECURSIVE run(_, _, _, _, _)
\* call the filters fs on obj, the i-th call on filter order[i], threading
\* the object through the calls; acc collects each filter's return value
run(fs, order, i, obj, acc) ==
    IF i > Len(order) THEN [obj |-> obj, rets |-> acc]
    ELSE run(fs, order, i + 1, filter_effect(fs[order[i]], obj),
             [acc EXCEPT ![order[i]] = filter_return(fs[order[i]], obj)])

(* -------------------------------- limit ------------------------------- *)
\* The upstream iterator is [items, pos, calls]: the values it holds, how
\* many of them it has produced, and how many times next() was called on it.
\* next(iterator): the item produced, <<v>>, or <<>> for StopIteration
upstream_next(up) ==
    IF up.pos < Len(up.items)
    THEN [up |-> [up EXCEPT !.pos = @ + 1, !.calls = @ + 1],
          ret |-> <<up.items[up.pos + 1]>>]
    ELSE [up |-> [up EXCEPT !.calls = @ + 1], ret |-> <<>>]

\* The object limit returns shares the upstream iterator it was given: it is
\* [kind, cnt, stop, live], and the upstream's own state stays in the iterator.
\* itertools.islice(iterator, n): cnt items produced so far, stop = n, and
\* live = it still holds its reference to the upstream
islice(n) == [kind |-> "islice", cnt |-> 0, stop |-> n.val, live |-> TRUE]

\* the iterator itself, returned as it is
same_iterator == [kind |-> "iterator", cnt |-> 0, stop |-> 0, live |-> TRUE]

\* islice(iterator, n + 1)
limit_one_more(it, n) ==
    IF (n.kind = "int" /\ n.val = 0) \/ is_None(n) THEN same_iterator
    ELSE islice(PyInt(n.val + 1))

\* `if n is None:` in place of `if (n == 0) or (n is None):`
limit_zero_is_a_cap(it, n) == IF is_None(n) THEN same_iterator ELSE islice(n)

limit(it, n) ==
    IF (n.kind = "int" /\ n.val = 0) \/ is_None(n) THEN same_iterator
    ELSE islice(n)

\* an islice that takes the next item from upstream before it looks at its count
lim_next_eager(l, up) ==
    IF l.kind = "iterator" THEN [lim |-> l] @@ upstream_next(up)
    ELSE IF ~l.live THEN [lim |-> l, up |-> up, ret |-> <<>>]
    ELSE LET r == upstream_next(up) IN
         IF r.ret = <<>> \/ l.cnt >= l.stop
         THEN [lim |-> [l EXCEPT !.live = FALSE], up |-> r.up, ret |-> <<>>]
         ELSE [lim |-> [l EXCEPT !.cnt = @ + 1], up |-> r.up, ret |-> r.ret]

\* next() on the object limit returned
lim_next(l, up) ==
    IF l.kind = "iterator" THEN [lim |-> l] @@ upstream_next(up)
    ELSE IF ~l.live THEN [lim |-> l, up |-> up, ret |-> <<>>]
    ELSE IF l.cnt >= l.stop
    THEN [lim |-> [l EXCEPT !.live = FALSE], up |-> up, ret |-> <<>>]
    ELSE LET r == upstream_next(up) IN
         IF r.ret = <<>>
         THEN [lim |-> [l EXCEPT !.live = FALSE], up |-> r.up, ret |-> <<>>]
         ELSE [lim |-> [l EXCEPT !.cnt = @ + 1], up |-> r.up, ret |-> r.ret]

(* ------------------------------ load_neos ----------------------------- *)
\* float(s) on the diameter strings of the CSV rows
float_of(s) == CASE s = "0" -> Float(0) [] s = "1" -> Float(1)

\* NearEarthObject(designation=line['pdes'], name=name, diameter=diam, hazardous=haz)
neo_of(line) ==
    [designation |-> line.pdes,
     name |-> IF line.name = "" THEN None ELSE Str(line.name),
     diameter |-> IF line.diameter = "" THEN NaN ELSE float_of(line.diameter),
     hazardous |-> Bool(line.pha = "Y")]

\* the rows a CSV file may hold
Lines == [pdes : {"433", "719"}, name : {"", "Eros"}, diameter : {"", "0", "1"},
          pha : {"Y", "N"}]

SeqsUpTo(S, k) == UNION {[1..m -> S] : m \in 0..k}

(* ------------------------------ state --------------------------------- *)
VARIABLES
    pc,         \* create_filters and its caller: "idle", "start", "built", "matched"
    criteria,   \* the keyword arguments given to create_filters
    filters,    \* the list create_filters returned
    arg,        \* the approach the filters are called on, as it was passed
    x,          \* that approach object after the calls
    rets,       \* rets[i]: what filters[i] returned, first call
    rets2,      \* rets2[i]: what filters[i] returned, second call
    lpc,        \* limit and its caller: "idle", "start", "iterating"
    iterator,   \* the upstream iterator given to limit
    n,          \* the n given to limit
    lim,        \* the object limit returned
    out,        \* the items the caller received, in order
    requests,   \* how many times the caller called next() on lim
    stopped,    \* the caller has seen StopIteration
    npc,        \* load_neos: "idle", "reading", "returned"
    csv_reader, \* the rows of the file
    line_no,    \* rows read so far
    near_earth_objects \* the list load_neos builds

fvars == <<pc, criteria, filters, arg, x, rets, rets2>>

lvars == <<lpc, iterator, n, lim, out, requests, stopped>>

nvars == <<npc, csv_reader, line_no, near_earth_objects>>

vars == <<fvars, lvars, nvars>>

NoApproach ==
    [time |-> 0, distance |-> Float(0), velocity |-> Float(0),
     neo |-> [diameter |-> NaN, hazardous |-> Bool(FALSE)]]

FIdle ==
    /\ criteria = [k \in Keys |-> None]
    /\ filters = <<>>
    /\ arg = NoApproach
    /\ x = NoApproach
    /\ rets = <<>>
    /\ rets2 = <<>>

LIdle ==
    /\ n = None
    /\ lim = same_iterator
    /\ out = <<>>
    /\ requests = 0
    /\ stopped = FALSE

NIdle ==
    /\ line_no = 0
    /\ near_earth_objects = <<>>

(* ----------------------- create_filters and its use ------------------- *)
FInit ==
    /\ pc = "start" /\ FIdle
    /\ lpc = "idle" /\ LIdle /\ iterator = [items |-> <<>>, pos |-> 0, calls |-> 0]
    /\ npc = "idle" /\ NIdle /\ csv_reader = <<>>

\* main calls create_filters with the user's criteria
CreateFilters ==
    /\ pc = "start"
    /\ \E S \in {T \in SUBSET Keys : Cardinality(T) <= MaxSupplied} :
         \E a \in ArgsOver(S) :
            /\ criteria' = a
            /\ filters' = create_filters(a)
    /\ pc' = "built"
    /\ UNCHANGED <<arg, x, rets, rets2, lvars, nvars>>

\* every filter of the list is called on one approach, in list order, and
\* then once more, in reverse order
Match ==
    /\ pc = "built"
    /\ \E a \in Approaches :
         LET k == Len(filters)
             first == run(filters, [i \in 1..k |-> i], 1, a, [i \in 1..k |-> None])
             again == run(filters, [i \in 1..k |-> k + 1 - i], 1, first.obj,
                          [i \in 1..k |-> None])
         IN /\ arg' = a
            /\ x' = again.obj
            /\ rets' = first.rets
            /\ rets2' = again.rets
    /\ pc' = "matched"
    /\ UNCHANGED <<criteria, filters, lvars, nvars>>

FNext == CreateFilters \/ Match

SpecFilters == FInit /\ [][FNext]_vars

(* ---------------------------- limit and its use ----------------------- *)
LInit ==
    /\ lpc = "start" /\ LIdle
    /\ \E s \in SeqsUpTo(1..MaxElem, MaxLen) :
         iterator = [items |-> s, pos |-> 0, calls |-> 0]
    /\ pc = "idle" /\ FIdle
    /\ npc = "idle" /\ NIdle /\ csv_reader = <<>>

\* limit(iterator, n)
CallLimit ==
    /\ lpc = "start"
    /\ \E k \in {None} \cup {PyInt(v) : v \in 0..MaxN} :
         /\ n' = k
         /\ lim' = limit(iterator, k)
    /\ lpc' = "iterating"
    /\ UNCHANGED <<iterator, out, requests, stopped, fvars, nvars>>

\* the caller asks the returned object for its next item, also after it
\* has seen StopIteration
CallerNext ==
    /\ lpc = "iterating"
    /\ requests < Len(iterator.items) + MaxExtra
    /\ LET r == lim_next(lim, iterator) IN
         /\ lim' = r.lim
         /\ iterator' = r.up
         /\ out' = out \o r.ret
         /\ stopped' = (stopped \/ r.ret = <<>>)
    /\ requests' = requests + 1
    /\ UNCHANGED <<lpc, n, fvars, nvars>>

LNext == CallLimit \/ CallerNext

SpecLimit == LInit /\ [][LNext]_vars

(* ------------------------------ load_neos ----------------------------- *)
NInit ==
    /\ npc = "reading" /\ NIdle
    /\ csv_reader \in SeqsUpTo(Lines, MaxRows)
    /\ pc = "idle" /\ FIdle
    /\ lpc = "idle" /\ LIdle /\ iterator = [items |-> <<>>, pos |-> 0, calls |-> 0]

\* one turn of `for line in csv_reader:`
ReadLine ==
    /\ npc = "reading"
    /\ line_no < Len(csv_reader)
    /\ near_earth_objects' = Append(near_earth_objects, neo_of(csv_reader[line_no + 1]))
    /\ line_no' = line_no + 1
    /\ UNCHANGED <<npc, csv_reader, fvars, lvars>>

\* return near_earth_objects
Return ==
    /\ npc = "reading"
    /\ line_no = Len(csv_reader)
    /\ npc' = "returned"
    /\ UNCHANGED <<csv_reader, line_no, near_earth_objects, fvars, lvars>>

NNext == ReadLine \/ Return

SpecLoad == NInit /\ [][NNext]_vars

(* ============================== claims ================================ *)
\* all the returned values are true: the approach passes all the filters
passes(r) == \A i \in DOMAIN r : truthy(r[i])

\* the approach a passes all the filters of fs
all_pass(fs, a) == \A i \in 1..Len(fs) : truthy(filter_return(fs[i], a))

\* two Python values are the same value
same(u, v) == u.kind = v.kind /\ u.val = v.val

\* the criteria table of create_filters: a satisfies every supplied criterion
satisfies(c, a) ==
    /\ is_None(c.date) \/ eq(date_of(a.time), c.date)
    /\ is_None(c.start_date) \/ ge(date_of(a.time), c.start_date)
    /\ is_None(c.end_date) \/ le(date_of(a.time), c.end_date)
    /\ is_None(c.distance_min) \/ ge(a.distance, c.distance_min)
    /\ is_None(c.distance_max) \/ le(a.distance, c.distance_max)
    /\ is_None(c.velocity_min) \/ ge(a.velocity, c.velocity_min)
    /\ is_None(c.velocity_max) \/ le(a.velocity, c.velocity_max)
    /\ is_None(c.diameter_min) \/ ge(a.neo.diameter, c.diameter_min)
    /\ is_None(c.diameter_max) \/ le(a.neo.diameter, c.diameter_max)
    /\ is_None(c.hazardous) \/ eq(a.neo.hazardous, c.hazardous)

\* the filter the table gives a numeric criterion
NumericKeys ==
    {"distance_min", "distance_max", "velocity_min", "velocity_max",
     "diameter_min", "diameter_max"}

table_filter(k, bound) ==
    CASE k = "distance_min" -> Filter("distance", ">=", bound)
      [] k = "distance_max" -> Filter("distance", "<=", bound)
      [] k = "velocity_min" -> Filter("velocity", ">=", bound)
      [] k = "velocity_max" -> Filter("velocity", "<=", bound)
      [] k = "diameter_min" -> Filter("neo.diameter", ">=", bound)
      [] k = "diameter_max" -> Filter("neo.diameter", "<=", bound)

\* some supplied minimum lies above the supplied maximum of the same attribute
min_above_max(c) ==
    \E p \in {<<"distance_min", "distance_max">>, <<"velocity_min", "velocity_max">>,
              <<"diameter_min", "diameter_max">>, <<"start_date", "end_date">>} :
        /\ ~is_None(c[p[1]])
        /\ ~is_None(c[p[2]])
        /\ c[p[1]].val > c[p[2]].val

\* the filters of fs that read attribute attr
reading(fs, attr) == {i \in 1..Len(fs) : fs[i].attr = attr}

Permutations_(k) == {p \in [1..k -> 1..k] : \A i, j \in 1..k : p[i] = p[j] => i = j}

Min(a, b) == IF a <= b THEN a ELSE b

positive(v) == v.kind = "int" /\ v.val > 0

\* C1: an approach passes all the filters create_filters returned if and
\* only if it satisfies every supplied criterion as the table defines it, and
\* with no criterion supplied the filter list is empty.
C1_FiltersDecideCriteria ==
    pc = "matched" =>
        /\ passes(rets) <=> satisfies(criteria, arg)
        /\ (\A k \in Keys : is_None(criteria[k])) => filters = <<>>

\* C5: a numeric bound of literal zero is an active bound: the returned list
\* holds the filter for it, and distance_max = 0 rejects every approach whose
\* distance is greater than 0.
C5_ZeroBoundIsActive ==
    pc \in {"built", "matched"} =>
        /\ \A k \in NumericKeys :
              same(criteria[k], Float(0)) =>
                 \E i \in 1..Len(filters) : filters[i] = table_filter(k, Float(0))
        /\ (pc = "matched" /\ same(criteria.distance_max, Float(0))
              /\ arg.distance.val > 0) => ~passes(rets)

\* C6: hazardous is tri-state. None: no filter on the hazardous flag is in the
\* list, and an approach passes whatever its NEO's flag. True or False: exactly
\* one such filter is in the list, and it passes exactly the approaches whose
\* NEO's flag equals the given value.
C6_HazardousTriState ==
    pc \in {"built", "matched"} =>
        LET hz == reading(filters, "neo.hazardous") IN
        /\ is_None(criteria.hazardous) => hz = {}
        /\ ~is_None(criteria.hazardous) => Cardinality(hz) = 1
        /\ pc = "matched" =>
              /\ \A i \in hz :
                    truthy(rets[i]) <=> (arg.neo.hazardous.val = criteria.hazardous.val)
              /\ (~is_None(criteria.hazardous) /\ passes(rets)) =>
                    arg.neo.hazardous.val = criteria.hazardous.val
              /\ is_None(criteria.hazardous) =>
                    (passes(rets) <=>
                        all_pass(filters,
                                 [arg EXCEPT !.neo.hazardous = Bool(~arg.neo.hazardous.val)]))

\* C6 happens: hazardous = False was supplied with another criterion, and an
\* approach of a non-hazardous NEO passed both filters
C6_Witness ==
    /\ pc = "matched"
    /\ criteria.hazardous.kind = "bool"
    /\ ~criteria.hazardous.val
    /\ Len(filters) = 2
    /\ ~arg.neo.hazardous.val
    /\ passes(rets)

C9_MinAboveMaxMatchesNothing ==
    (pc = "matched" /\ min_above_max(criteria)) => ~passes(rets)

C2_LimitTakesFirstN ==
    (lpc = "iterating" /\ positive(n)) =>
        /\ Len(out) <= n.val
        /\ out = SubSeq(iterator.items, 1, Len(out))
        /\ stopped => Len(out) = Min(n.val, Len(iterator.items))

\* C2 happens: the stream ended after n items with more left upstream
C2_Witness ==
    /\ lpc = "iterating"
    /\ positive(n)
    /\ stopped
    /\ n.val >= 2
    /\ n.val < Len(iterator.items)
    /\ Len(out) = n.val

\* C3: with n = 0 or n = None limit returns the iterator itself, and the
\* caller receives all its items, in order, none dropped or added.
C3_LimitZeroOrNoneIsNoOp ==
    (lpc = "iterating" /\ ~positive(n)) =>
        /\ lim.kind = "iterator"
        /\ out = SubSeq(iterator.items, 1, iterator.pos)
        /\ stopped => out = iterator.items

\* C3 happens: limit(iterator, 0) was drained and gave two items or more
C3_Witness ==
    /\ lpc = "iterating"
    /\ n.kind = "int"
    /\ n.val = 0
    /\ stopped
    /\ Len(out) >= 2

\* C4: for positive n, next() has been called on the upstream at most as
\* often as the caller asked for an item, and at most n times: calling limit
\* pulls nothing, and once n items were produced the upstream is left alone
\* however often the caller asks again.
C4_LimitPullsOnDemand ==
    (lpc = "iterating" /\ positive(n)) =>
        /\ iterator.calls <= requests
        /\ iterator.calls <= n.val
        /\ iterator.pos = Len(out)

\* C4 happens: the caller asked again after the n-th item, with items left upstream
C4_Witness ==
    /\ lpc = "iterating"
    /\ positive(n)
    /\ Len(out) = n.val
    /\ requests > n.val + 1
    /\ n.val < Len(iterator.items)

\* C8: the list load_neos returns never holds two records with the same designation.
C8_NoDuplicateDesignations ==
    npc = "returned" =>
        \A i, j \in 1..Len(near_earth_objects) :
            near_earth_objects[i].designation = near_earth_objects[j].designation => i = j

====
